---- MODULE Spec2Model ----
(***************************************************************************)
(* Model of the sknlinechart widget (pkg/components/linechart.go): the     *)
(* LineChartSkn widget state, its data-mutation entry points, its mouse    *)
(* handlers, and the sknLineChartRenderer (Refresh, Layout, Objects).      *)
(*                                                                         *)
(* A data point is the record [value, color, top, bottom]: the value and   *)
(* colour given to NewSknDatapoint and the marker box corners written by   *)
(* Layout through SetMarkerPosition. The timestamp is an opaque string the *)
(* widget only prints and is left out. Positions are pairs <<x, y>>.       *)
(* Widget sizes are chosen so that the float32 arithmetic of Layout is     *)
(* exact on integers.                                                      *)
(***************************************************************************)
EXTENDS Integers, Sequences, FiniteSets, TLC

VARIABLES
    dataPoints,               \* *w.dataPoints: series name -> sequence of points
    EnableDataPointMarkers,   \* w.EnableDataPointMarkers
    EnableHorizGridLines,     \* w.EnableHorizGridLines
    EnableVertGridLines,      \* w.EnableVertGridLines
    EnableMousePointDisplay,  \* w.EnableMousePointDisplay
    labels,                   \* the eight label fields of the widget
    mouseDisplayStr,          \* w.mouseDisplayStr
    mouseDisplayPosition,     \* *w.mouseDisplayPosition
    mouseDisplayFrameColor,   \* w.mouseDisplayFrameColor
    r,                        \* the sknLineChartRenderer and its canvas objects
    panicked,                 \* a Go runtime panic has ended the program
    call,                     \* the last call made on the widget, with its result
    pending                   \* the data mutation whose w.Refresh() has not run yet

widgetVars == <<dataPoints, EnableDataPointMarkers, EnableHorizGridLines,
                EnableVertGridLines, EnableMousePointDisplay, labels,
                mouseDisplayStr, mouseDisplayPosition, mouseDisplayFrameColor>>
toggleVars == <<EnableDataPointMarkers, EnableHorizGridLines,
                EnableVertGridLines, EnableMousePointDisplay>>
mouseVars == <<mouseDisplayStr, mouseDisplayPosition, mouseDisplayFrameColor>>
vars == <<dataPoints, EnableDataPointMarkers, EnableHorizGridLines,
          EnableVertGridLines, EnableMousePointDisplay, labels,
          mouseDisplayStr, mouseDisplayPosition, mouseDisplayFrameColor,
          r, panicked, call, pending>>

(***************************************************************************)
(* Bounds of the model.                                                    *)
(***************************************************************************)
\* The point-count limit. The program sets it to 120; the model runs the
\* same code with a small limit so that full series are reachable.
dpl == 3

SeriesNames == {"first", "second"}
Values == {1, 2}
Colors == {"yellow"}
\* input series hold up to dpl + 2 points, so oversized inputs are among them
MaxInLen == dpl + 2

(***************************************************************************)
(* Data points (SknChartDatapoint)                                         *)
(***************************************************************************)
Zero == <<0, 0>>

IsZero(p) == p[1] = 0 /\ p[2] = 0

NewSknDatapoint(value, colorName) ==
    [value |-> value, color |-> colorName, top |-> Zero, bottom |-> Zero]

SetMarkerPosition(point, top, bottom) ==
    [point EXCEPT !.top = top, !.bottom = bottom]

\* the series <<1, 2, 1, ...>> of n fresh points, alternating over Values
InputSeriesOf(n) ==
    [i \in 1..n |-> NewSknDatapoint(IF i % 2 = 1 THEN 1 ELSE 2, "yellow")]
InputSeries == {InputSeriesOf(n) : n \in 0..MaxInLen}
InputPoints == {NewSknDatapoint(v, c) : v \in Values, c \in Colors}
\* the maps a caller passes: any subset of the names, each with an input series
MapsOver(series) == UNION {[ks -> series] : ks \in SUBSET SeriesNames}
InputMaps == MapsOver(InputSeries)
\* the maps passed to ReplaceAllDataSeries: series that are empty, one under
\* the limit, at the limit and one over it
ReplaceMaps == MapsOver({InputSeriesOf(n) : n \in {0, dpl - 1, dpl, dpl + 1}})

(***************************************************************************)
(* commons: slice helpers                                                  *)
(***************************************************************************)
RemoveIndexFromSlice(index, slice) ==
    [i \in 1..(Len(slice) - 1) |-> IF i <= index THEN slice[i] ELSE slice[i + 1]]

\* evict the oldest point (index 0) and put newData last
ShiftSlice(newData, slice) == Append(RemoveIndexFromSlice(0, slice), newData)

(***************************************************************************)
(* Widget construction                                                     *)
(***************************************************************************)
DataPointXLimit == dpl

\* a truncation loop that runs one round too long
RECURSIVE MutTruncateLeading(_)
MutTruncateLeading(points) ==
    IF Len(points) >= dpl
    THEN MutTruncateLeading(RemoveIndexFromSlice(0, points))
    ELSE points

\* the inner loop of NewSknLineChart: drop leading points while over the limit
RECURSIVE TruncateLeading(_)
TruncateLeading(points) ==
    IF Len(points) > dpl
    THEN TruncateLeading(RemoveIndexFromSlice(0, points))
    ELSE points

NewSknLineChartData(input) ==
    [k \in DOMAIN input |->
        IF Len(input[k]) > dpl THEN TruncateLeading(input[k]) ELSE input[k]]

NewSknLineChartErr(input) ==
    IF \E k \in DOMAIN input : Len(input[k]) > dpl THEN "limit" ELSE "nil"

InitLabels ==
    [TopLeftLabel |-> "top left desc", TopCenteredLabel |-> "title",
     TopRightLabel |-> "", LeftMiddleLabel |-> "left middle desc",
     RightMiddleLabel |-> "right middle desc",
     BottomLeftLabel |-> "bottom left desc", BottomCenteredLabel |-> "footer",
     BottomRightLabel |-> "bottom right desc"]

EmptyStr == <<>>

(***************************************************************************)
(* Renderer                                                                *)
(***************************************************************************)
\* canvas objects created per point: a line and a marker circle. A line is
\* [p1, p2], a marker is [p1, p2]; both start at the zero position.
NewLine == [p1 |-> Zero, p2 |-> Zero]
NewCircle == [p1 |-> Zero, p2 |-> Zero]

DescTexts(lbl) ==
    [topLeftDesc |-> lbl.TopLeftLabel, topCenteredDesc |-> lbl.TopCenteredLabel,
     topRightDesc |-> lbl.TopRightLabel, bottomLeftDesc |-> lbl.BottomLeftLabel,
     bottomCenteredDesc |-> lbl.BottomCenteredLabel,
     bottomRightDesc |-> lbl.BottomRightLabel]

\* canvas objects are created shown; Objects() shows or hides each of them
AllVisible ==
    [topLeftDesc |-> TRUE, topCenteredDesc |-> TRUE, topRightDesc |-> TRUE,
     leftMiddleBox |-> TRUE, rightMiddleBox |-> TRUE, bottomLeftDesc |-> TRUE,
     bottomCenteredDesc |-> TRUE, bottomRightDesc |-> TRUE,
     xLines |-> TRUE, yLines |-> TRUE, markers |-> TRUE,
     mouseDisplayContainer |-> TRUE]

\* what the last Objects() call returned to the canvas: nothing before the
\* first call, then the static objects, one line and one marker per renderer
\* data object, and the tooltip container
NoObjects == [static |-> FALSE, data |-> << >>, mouseDisplayContainer |-> FALSE]

newSknLineChartRenderer(dp, lbl, frameColor) ==
    LET keys == {k \in DOMAIN dp : Len(dp[k]) > 0} IN
    [dataPoints |-> [k \in keys |-> [i \in 1..Len(dp[k]) |-> NewLine]],
     dataPointMarkers |-> [k \in keys |-> [i \in 1..Len(dp[k]) |-> NewCircle]],
     borderColor |-> frameColor,
     legendText |-> EmptyStr,
     text |-> DescTexts(lbl),
     leftMiddleBox |-> lbl.LeftMiddleLabel,
     rightMiddleBox |-> lbl.RightMiddleLabel,
     visible |-> AllVisible,
     objs |-> NoObjects,
     containerPosition |-> Zero,
     xInc |-> 0, yInc |-> 0]

\* one series of canvas objects grown to n objects
Grow(objs, n, new) ==
    [i \in 1..(IF n > Len(objs) THEN n ELSE Len(objs)) |->
        IF i <= Len(objs) THEN objs[i] ELSE new]

verifyDataPointsOf(dp, objs, new) ==
    [k \in DOMAIN dp \cup DOMAIN objs |->
        IF k \notin DOMAIN dp THEN objs[k]
        ELSE Grow(IF k \in DOMAIN objs THEN objs[k] ELSE <<>>, Len(dp[k]), new)]

\* sknLineChartRenderer.Refresh, reading the widget state given
Refresh(rr, dp, lbl, str, frameColor) ==
    [rr EXCEPT
        !.dataPoints = verifyDataPointsOf(dp, rr.dataPoints, NewLine),
        !.dataPointMarkers = verifyDataPointsOf(dp, rr.dataPointMarkers, NewCircle),
        !.borderColor = frameColor,
        !.legendText = str,
        !.text = DescTexts(lbl),
        !.leftMiddleBox = lbl.LeftMiddleLabel,
        !.rightMiddleBox = lbl.RightMiddleLabel]

(***************************************************************************)
(* Data-mutation entry points                                              *)
(***************************************************************************)
Size(m) == Cardinality(DOMAIN m)

ReplaceAllDataSeriesErr(dp, newData) ==
    IF Size(dp) <= Size(newData)
    THEN IF \E k \in DOMAIN newData : Len(newData[k]) > DataPointXLimit
         THEN "limit" ELSE "nil"
    ELSE "smaller"

\* a replacement that keeps the previous series newData does not name
MutReplaceAllDataSeriesData(dp, newData) ==
    IF Size(dp) <= Size(newData)
    THEN IF \E k \in DOMAIN newData : Len(newData[k]) > DataPointXLimit
         THEN dp
         ELSE [k \in DOMAIN dp \cup DOMAIN newData |->
                  IF k \in DOMAIN newData THEN newData[k] ELSE dp[k]]
    ELSE dp

ReplaceAllDataSeriesData(dp, newData) ==
    IF Size(dp) <= Size(newData)
    THEN IF \E k \in DOMAIN newData : Len(newData[k]) > DataPointXLimit
         THEN dp ELSE newData
    ELSE dp

ReplaceAllDataSeries(newData) ==
    /\ ~panicked
    /\ UNCHANGED pending
    /\ LET err == ReplaceAllDataSeriesErr(dataPoints, newData)
           dp == ReplaceAllDataSeriesData(dataPoints, newData)
       IN /\ dataPoints' = dp
          /\ r' = IF err = "nil"
                  THEN Refresh(r, dp, labels, mouseDisplayStr, mouseDisplayFrameColor)
                  ELSE r
          /\ call' = [op |-> "ReplaceAllDataSeries", newData |-> newData, err |-> err]
    /\ UNCHANGED <<toggleVars, labels, mouseVars, panicked>>

ApplyNewDataSeriesErr(newSeries) ==
    IF Len(newSeries) < DataPointXLimit THEN "nil" ELSE "limit"

SetSeries(dp, seriesName, series) ==
    [k \in DOMAIN dp \cup {seriesName} |-> IF k = seriesName THEN series ELSE dp[k]]

\* a series call that stores the series before it validates it
MutApplyNewDataSeriesData(dp, seriesName, newSeries) ==
    SetSeries(dp, seriesName, newSeries)

ApplyNewDataSeriesData(dp, seriesName, newSeries) ==
    IF Len(newSeries) < DataPointXLimit
    THEN SetSeries(dp, seriesName, newSeries)
    ELSE dp

ApplyNewDataSeries(seriesName, newSeries) ==
    /\ ~panicked
    /\ UNCHANGED pending
    /\ LET err == ApplyNewDataSeriesErr(newSeries)
           dp == ApplyNewDataSeriesData(dataPoints, seriesName, newSeries)
       IN /\ dataPoints' = dp
          /\ r' = IF err = "nil"
                  THEN Refresh(r, dp, labels, mouseDisplayStr, mouseDisplayFrameColor)
                  ELSE r
          /\ call' = [op |-> "ApplyNewDataSeries", name |-> seriesName,
                      series |-> newSeries, err |-> err]
    /\ UNCHANGED <<toggleVars, labels, mouseVars, panicked>>

SeriesOf(dp, seriesName) == IF seriesName \in DOMAIN dp THEN dp[seriesName] ELSE <<>>

\* a point call that still appends when the series is full
MutAppendAtLimit(dp, seriesName, newDataPoint) ==
    IF Len(SeriesOf(dp, seriesName)) <= DataPointXLimit
    THEN SetSeries(dp, seriesName, Append(SeriesOf(dp, seriesName), newDataPoint))
    ELSE SetSeries(dp, seriesName, ShiftSlice(newDataPoint, SeriesOf(dp, seriesName)))

\* a point call that drops the new point when the series is full
MutDropAtLimit(dp, seriesName, newDataPoint) ==
    IF Len(SeriesOf(dp, seriesName)) < DataPointXLimit
    THEN SetSeries(dp, seriesName, Append(SeriesOf(dp, seriesName), newDataPoint))
    ELSE SetSeries(dp, seriesName, SeriesOf(dp, seriesName))

ApplySingleDataPointData(dp, seriesName, newDataPoint) ==
    IF Len(SeriesOf(dp, seriesName)) < DataPointXLimit
    THEN SetSeries(dp, seriesName, Append(SeriesOf(dp, seriesName), newDataPoint))
    ELSE SetSeries(dp, seriesName, ShiftSlice(newDataPoint, SeriesOf(dp, seriesName)))

ApplySingleDataPoint(seriesName, newDataPoint) ==
    /\ ~panicked
    /\ UNCHANGED pending
    /\ LET dp == ApplySingleDataPointData(dataPoints, seriesName, newDataPoint)
       IN /\ dataPoints' = dp
          /\ r' = Refresh(r, dp, labels, mouseDisplayStr, mouseDisplayFrameColor)
          /\ call' = [op |-> "ApplySingleDataPoint", name |-> seriesName,
                      point |-> newDataPoint, before |-> SeriesOf(dataPoints, seriesName)]
    /\ UNCHANGED <<toggleVars, labels, mouseVars, panicked>>

(***************************************************************************)
(* Label and toggle setters                                                *)
(***************************************************************************)
LabelFields == {"TopLeftLabel", "TopCenteredLabel", "TopRightLabel",
                "LeftMiddleLabel", "RightMiddleLabel", "BottomLeftLabel",
                "BottomCenteredLabel", "BottomRightLabel"}

\* SetTopLeftLabel, SetTitle, SetTopRightLabel, ...: each stores the text in
\* its field and does not refresh the renderer
SetLabel(field, newValue) ==
    /\ ~panicked
    /\ UNCHANGED pending
    /\ labels' = [labels EXCEPT ![field] = newValue]
    /\ call' = [op |-> "SetLabel", field |-> field, value |-> newValue]
    /\ UNCHANGED <<dataPoints, toggleVars, mouseVars, r, panicked>>

SetMousePointDisplay(enable) ==
    /\ ~panicked
    /\ UNCHANGED pending
    /\ EnableMousePointDisplay' = enable
    /\ call' = [op |-> "SetMousePointDisplay", enable |-> enable]
    /\ UNCHANGED <<dataPoints, EnableDataPointMarkers, EnableHorizGridLines,
                   EnableVertGridLines, labels, mouseVars, r, panicked>>

SetDataPointMarkers(enable) ==
    /\ ~panicked
    /\ UNCHANGED pending
    /\ EnableDataPointMarkers' = enable
    /\ call' = [op |-> "SetDataPointMarkers", enable |-> enable]
    /\ UNCHANGED <<dataPoints, EnableMousePointDisplay, EnableHorizGridLines,
                   EnableVertGridLines, labels, mouseVars, r, panicked>>

(***************************************************************************)
(* Mouse handlers                                                          *)
(***************************************************************************)
MouseButtons == {"primary", "secondary", "tertiary"}

\* a handler with the two buttons swapped
MutMouseDown(button) ==
    /\ ~panicked
    /\ UNCHANGED pending
    /\ IF button = "primary"
       THEN /\ EnableDataPointMarkers' = ~EnableDataPointMarkers
            /\ r' = Refresh(r, dataPoints, labels, mouseDisplayStr, mouseDisplayFrameColor)
            /\ UNCHANGED EnableMousePointDisplay
       ELSE IF button = "secondary"
       THEN /\ EnableMousePointDisplay' = ~EnableMousePointDisplay
            /\ r' = Refresh(r, dataPoints, labels, mouseDisplayStr, mouseDisplayFrameColor)
            /\ UNCHANGED EnableDataPointMarkers
       ELSE UNCHANGED <<EnableDataPointMarkers, EnableMousePointDisplay, r>>
    /\ call' = [op |-> "MouseDown", button |-> button]
    /\ UNCHANGED <<dataPoints, EnableHorizGridLines, EnableVertGridLines,
                   labels, mouseVars, panicked>>

MouseDown(button) ==
    /\ ~panicked
    /\ UNCHANGED pending
    /\ IF button = "secondary"
       THEN /\ EnableDataPointMarkers' = ~EnableDataPointMarkers
            /\ r' = Refresh(r, dataPoints, labels, mouseDisplayStr, mouseDisplayFrameColor)
            /\ UNCHANGED EnableMousePointDisplay
       ELSE IF button = "primary"
       THEN /\ EnableMousePointDisplay' = ~EnableMousePointDisplay
            /\ r' = Refresh(r, dataPoints, labels, mouseDisplayStr, mouseDisplayFrameColor)
            /\ UNCHANGED EnableDataPointMarkers
       ELSE UNCHANGED <<EnableDataPointMarkers, EnableMousePointDisplay, r>>
    /\ call' = [op |-> "MouseDown", button |-> button]
    /\ UNCHANGED <<dataPoints, EnableHorizGridLines, EnableVertGridLines,
                   labels, mouseVars, panicked>>

MouseUp ==
    /\ ~panicked
    /\ UNCHANGED pending
    /\ call' = [op |-> "MouseUp"]
    /\ UNCHANGED <<widgetVars, r, panicked>>

MouseIn ==
    /\ ~panicked
    /\ UNCHANGED pending
    /\ call' = [op |-> "MouseIn"]
    /\ UNCHANGED <<widgetVars, r, panicked>>

\* the toolkit's theme padding and text measure (theme.Padding, MeasureText)
Padding == 24
MeasureHeight == 10
MeasureWidth(text) == IF text = EmptyStr THEN 0 ELSE 40

\* fmt.Sprint(" Series: ", key, ", Index: ", idx, ", Value: ", value, ...):
\* the text as the triple it prints, idx counting from 0
Sprint(key, idx, value) == <<key, idx, value>>

\* the test of MouseMoved: the cursor is inside the marker box of the point
InMarkerBox(pos, point) ==
    /\ ~IsZero(pos)
    /\ ~IsZero(point.top)
    /\ pos[1] >= point.top[1] /\ pos[1] <= point.bottom[1]
    /\ pos[2] >= point.top[2] /\ pos[2] <= point.bottom[2]

\* the indexes (from 1) of the points of series key the cursor hits
HitsOf(dp, key, pos) ==
    {i \in 1..Len(dp[key]) : InMarkerBox(pos, dp[key][i])}

Max(S) == CHOOSE x \in S : \A y \in S : y <= x

enableMouseContainerPosition(text, pos) ==
    <<pos[1] - (MeasureWidth(text) \div 2),
      pos[2] - 3 * MeasureHeight - Padding>>

\* a handler that does not test EnableMousePointDisplay
MutMouseMoved(pos) ==
    /\ ~panicked
    /\ UNCHANGED pending
    /\ call' = [op |-> "MouseMoved", pos |-> pos]
    /\ LET hit == {k \in DOMAIN dataPoints : HitsOf(dataPoints, k, pos) # {}} IN
       IF hit = {}
       THEN UNCHANGED <<mouseVars, r>>
       ELSE \E key \in hit :
               LET i == Max(HitsOf(dataPoints, key, pos))
                   point == dataPoints[key][i]
                   value == Sprint(key, i - 1, point.value)
               IN /\ mouseDisplayStr' = value
                  /\ mouseDisplayFrameColor' = point.color
                  /\ mouseDisplayPosition' = enableMouseContainerPosition(value, pos)
                  /\ r' = Refresh(r, dataPoints, labels, value, point.color)
    /\ UNCHANGED <<dataPoints, toggleVars, labels, panicked>>

\* MouseMoved visits every point of every series and records each hit, so
\* the last hit visited stays: the highest index hit of whichever series the
\* map iteration visits last among those with a hit. No hit changes nothing.
MouseMoved(pos) ==
    /\ ~panicked
    /\ UNCHANGED pending
    /\ call' = [op |-> "MouseMoved", pos |-> pos]
    /\ LET hit == {k \in DOMAIN dataPoints : HitsOf(dataPoints, k, pos) # {}} IN
       IF ~EnableMousePointDisplay \/ hit = {}
       THEN UNCHANGED <<mouseVars, r>>
       ELSE \E key \in hit :
               LET i == Max(HitsOf(dataPoints, key, pos))
                   point == dataPoints[key][i]
                   value == Sprint(key, i - 1, point.value)
               IN /\ mouseDisplayStr' = value
                  /\ mouseDisplayFrameColor' = point.color
                  /\ mouseDisplayPosition' = enableMouseContainerPosition(value, pos)
                  /\ r' = Refresh(r, dataPoints, labels, value, point.color)
    /\ UNCHANGED <<dataPoints, toggleVars, labels, panicked>>

\* MouseOut: disableMouseContainer blanks the text and refreshes
MouseOut ==
    /\ ~panicked
    /\ UNCHANGED pending
    /\ mouseDisplayStr' = EmptyStr
    /\ r' = Refresh(r, dataPoints, labels, EmptyStr, mouseDisplayFrameColor)
    /\ call' = [op |-> "MouseOut"]
    /\ UNCHANGED <<dataPoints, toggleVars, labels, mouseDisplayPosition,
                   mouseDisplayFrameColor, panicked>>

(***************************************************************************)
(* Renderer: Layout and Objects                                            *)
(***************************************************************************)
\* w.dataPointScale.Height
ScaleHeight == 110

\* a plot that does not clamp values above the scale height
MutPlotPosition(xInc, yInc, idx, value) ==
    LET yScale == (yInc * 10) \div 100
        xScale == (xInc * 10) \div 100
        dp == IF value < 0 THEN 0 ELSE value
    IN <<xInc + idx * xScale, yInc * 12 - dp * yScale>>

\* the plotted position of the point at index idx (from 0) with this value
PlotPosition(xInc, yInc, idx, value) ==
    LET xp == xInc
        yp == yInc * 12
        yScale == (yInc * 10) \div 100
        xScale == (xInc * 10) \div 100
        dp == IF value > ScaleHeight THEN ScaleHeight
              ELSE IF value < 0 THEN 0 ELSE value
    IN <<xp + idx * xScale, yp - dp * yScale>>

\* a lastPoint that keeps its initial height at the first point of a series
MutLastPoint(xInc, yInc, data, idx) ==
    IF idx = 0
    THEN <<xInc, yInc * 12>>
    ELSE PlotPosition(xInc, yInc, idx - 1, data[idx].value)

\* lastPoint when the loop over the series data reaches index idx (from 0):
\* (xp, yy) at the first point, the plotted position of the point before
\* otherwise
LastPoint(xInc, yInc, data, idx) ==
    IF idx = 0
    THEN <<xInc, PlotPosition(xInc, yInc, 0, data[1].value)[2]>>
    ELSE PlotPosition(xInc, yInc, idx - 1, data[idx].value)

\* r.dataPoints[key][idx] or r.dataPointMarkers[key][idx] is out of range
IndexOutOfRange(dp, objs) ==
    \E k \in DOMAIN dp :
        Len(dp[k]) > (IF k \in DOMAIN objs THEN Len(objs[k]) ELSE 0)

LayoutMousePosition(mp, width, text) ==
    LET tsWidth == MeasureWidth(text)
        y == IF mp[2] < Padding \div 6 THEN Padding \div 6 ELSE mp[2]
        x == IF mp[1] < Padding \div 8 THEN Padding \div 8 ELSE mp[1]
    IN <<IF x + tsWidth > width - (Padding \div 4)
         THEN width - tsWidth - Padding - (Padding \div 4) ELSE x,
         y>>

Layout(s) ==
    /\ ~panicked
    /\ UNCHANGED pending
    /\ call' = [op |-> "Layout", size |-> s]
    /\ LET xInc == (s[1] - Padding) \div 14
           yInc == (s[2] - Padding) \div 14
           this(k, i) == PlotPosition(xInc, yInc, i - 1, dataPoints[k][i].value)
           last(k, i) == LastPoint(xInc, yInc, dataPoints[k], i - 1)
           laid(k, i) == k \in DOMAIN dataPoints /\ i <= Len(dataPoints[k])
       IN IF IndexOutOfRange(dataPoints, r.dataPoints)
             \/ IndexOutOfRange(dataPoints, r.dataPointMarkers)
          THEN /\ panicked' = TRUE
               /\ UNCHANGED <<dataPoints, mouseDisplayPosition, r>>
          ELSE /\ dataPoints' =
                     [k \in DOMAIN dataPoints |->
                        [i \in 1..Len(dataPoints[k]) |->
                           SetMarkerPosition(dataPoints[k][i],
                               <<this(k, i)[1] - 2, this(k, i)[2] - 2>>,
                               <<this(k, i)[1] + 2, this(k, i)[2] + 2>>)]]
               /\ mouseDisplayPosition' =
                     LayoutMousePosition(mouseDisplayPosition, s[1], r.legendText)
               /\ r' = [r EXCEPT
                     !.xInc = xInc,
                     !.yInc = yInc,
                     !.dataPoints =
                        [k \in DOMAIN r.dataPoints |->
                           [i \in 1..Len(r.dataPoints[k]) |->
                              IF laid(k, i)
                              THEN [p1 |-> this(k, i), p2 |-> last(k, i)]
                              ELSE r.dataPoints[k][i]]],
                     !.dataPointMarkers =
                        [k \in DOMAIN r.dataPointMarkers |->
                           [i \in 1..Len(r.dataPointMarkers[k]) |->
                              IF laid(k, i)
                              THEN [p1 |-> <<this(k, i)[1] - 2, this(k, i)[2] - 2>>,
                                    p2 |-> <<this(k, i)[1] + 2, this(k, i)[2] + 2>>]
                              ELSE r.dataPointMarkers[k][i]]],
                     !.containerPosition =
                        LayoutMousePosition(mouseDisplayPosition, s[1], r.legendText)]
               /\ UNCHANGED panicked
    /\ UNCHANGED <<toggleVars, labels, mouseDisplayStr, mouseDisplayFrameColor>>

\* a decision that shows the container whenever the display is enabled
MutMouseContainerShown(enabled, legendText) == enabled

\* the Show/Hide decision Objects() takes for the tooltip container
MouseContainerShown(enabled, legendText) ==
    IF enabled THEN legendText # EmptyStr ELSE FALSE

Objects ==
    /\ ~panicked
    /\ UNCHANGED pending
    /\ call' = [op |-> "Objects"]
    /\ r' = [r EXCEPT
          !.visible =
             [topLeftDesc |-> r.text.topLeftDesc # "",
              topCenteredDesc |-> r.text.topCenteredDesc # "",
              topRightDesc |-> r.text.topRightDesc # "",
              leftMiddleBox |-> labels.LeftMiddleLabel # "",
              rightMiddleBox |-> labels.RightMiddleLabel # "",
              bottomLeftDesc |-> r.text.bottomLeftDesc # "",
              bottomCenteredDesc |-> r.text.bottomCenteredDesc # "",
              bottomRightDesc |-> r.text.bottomRightDesc # "",
              xLines |-> EnableHorizGridLines,
              yLines |-> EnableVertGridLines,
              markers |-> EnableDataPointMarkers,
              mouseDisplayContainer |->
                  MouseContainerShown(EnableMousePointDisplay, r.legendText)],
          !.objs =
             [static |-> TRUE,
              data |-> [k \in DOMAIN r.dataPoints |-> Len(r.dataPoints[k])],
              mouseDisplayContainer |-> TRUE]]
    /\ UNCHANGED <<widgetVars, panicked>>

(***************************************************************************)
(* The data-mutation specification: a chart built by NewSknLineChart from  *)
(* any input map, then any sequence of the three data calls.               *)
(***************************************************************************)
NewSknLineChart(input) ==
    /\ dataPoints = NewSknLineChartData(input)
    /\ EnableDataPointMarkers = TRUE
    /\ EnableHorizGridLines = TRUE
    /\ EnableVertGridLines = TRUE
    /\ EnableMousePointDisplay = TRUE
    /\ labels = InitLabels
    /\ mouseDisplayStr = EmptyStr
    /\ mouseDisplayPosition = Zero
    /\ mouseDisplayFrameColor = "foreground"
    /\ r = newSknLineChartRenderer(NewSknLineChartData(input), InitLabels, "foreground")
    /\ panicked = FALSE
    /\ pending = "none"
    /\ call = [op |-> "NewSknLineChart", newData |-> input,
               err |-> NewSknLineChartErr(input)]

Init == \E input \in InputMaps : NewSknLineChart(input)

Next ==
    \/ \E n \in SeriesNames, s \in InputSeries : ApplyNewDataSeries(n, s)
    \/ \E n \in SeriesNames, p \in InputPoints : ApplySingleDataPoint(n, p)
    \/ \E newData \in ReplaceMaps : ReplaceAllDataSeries(newData)

Spec == Init /\ [][Next]_vars

(***************************************************************************)
(* The hover specification: a chart of two series, then any sequence of    *)
(* mouse moves, MouseOut, primary clicks, Layout and Objects calls and     *)
(* point additions to the first series.                                    *)
(***************************************************************************)
Sizes == {<<164, 164>>}
\* the origin, a place inside the marker box of a first point of value 1,
\* and a place inside no marker box
MousePositions == {<<0, 0>>, <<10, 119>>, <<100, 50>>}

InitUI ==
    NewSknLineChart([first |-> InputSeriesOf(dpl - 1), second |-> InputSeriesOf(1)])

NextUI ==
    \/ \E pos \in MousePositions : MouseMoved(pos)
    \/ MouseOut
    \/ MouseDown("primary")
    \/ \E s \in Sizes : Layout(s)
    \/ Objects
    \/ ApplySingleDataPoint("first", NewSknDatapoint(2, "yellow"))

SpecUI == InitUI /\ [][NextUI]_vars

(***************************************************************************)
(* The button specification: a chart of one point, then any sequence of    *)
(* mouse button events, MouseIn, mouse moves, Layout calls and changes of  *)
(* the top-right label.                                                    *)
(***************************************************************************)
InitButtons == NewSknLineChart([first |-> InputSeriesOf(1)])

NextButtons ==
    \/ \E b \in MouseButtons : MouseDown(b)
    \/ MouseUp
    \/ MouseIn
    \/ \E pos \in MousePositions : MouseMoved(pos)
    \/ \E s \in Sizes : Layout(s)
    \/ \E v \in {"", "top right desc"} : SetLabel("TopRightLabel", v)

SpecButtons == InitButtons /\ [][NextButtons]_vars

(***************************************************************************)
(* The label specification: a chart of one point, then any sequence of     *)
(* label setter calls (top-right, middle-left, bottom-left), Objects calls *)
(* and secondary clicks, which refresh the renderer.                       *)
(***************************************************************************)
LabelTexts == {"", "text"}
SetLabels == {"TopRightLabel", "LeftMiddleLabel", "BottomLeftLabel"}

InitLabelSpec == NewSknLineChart([first |-> InputSeriesOf(1)])

NextLabels ==
    \/ \E f \in SetLabels, v \in LabelTexts : SetLabel(f, v)
    \/ Objects
    \/ MouseDown("secondary")

SpecLabels == InitLabelSpec /\ [][NextLabels]_vars

(***************************************************************************)
(* The plotting specification: a chart of two series with values below,    *)
(* inside and above the scale, then any sequence of Layout calls at two    *)
(* sizes and point additions to the first series.                          *)
(***************************************************************************)
LayoutSizes == {<<164, 304>>, <<304, 164>>}
LayoutValues == {-5, 60, 115}

InitLayout ==
    \E a \in LayoutValues :
        NewSknLineChart([first |-> <<NewSknDatapoint(a, "yellow")>>,
                         second |-> <<NewSknDatapoint(115, "yellow"),
                                      NewSknDatapoint(-5, "yellow")>>])

NextLayout ==
    \/ \E s \in LayoutSizes : Layout(s)
    \/ \E v \in LayoutValues :
          ApplySingleDataPoint("first", NewSknDatapoint(v, "yellow"))

SpecLayout == InitLayout /\ [][NextLayout]_vars

(***************************************************************************)
(* The demo program: main builds the chart from the series first (longer   *)
(* than the limit) and second, and starts a goroutine that calls           *)
(* ApplyNewDataSeries("many", many), many being one point under the limit, *)
(* and then ApplySingleDataPoint("steady", ...) in a loop. The goroutine   *)
(* shares the widget with the UI thread without synchronisation, so each   *)
(* of its calls is two steps, the write to the series map and w.Refresh(), *)
(* and the UI thread's Layout, Objects and MouseMoved may run in between.  *)
(***************************************************************************)
\* lineChart.ApplyNewDataSeries("many", many) up to its map write
FeederApplyNewDataSeries ==
    /\ ~panicked
    /\ pending = "none"
    /\ "many" \notin DOMAIN dataPoints
    /\ call' = [op |-> "ApplyNewDataSeries", name |-> "many",
                series |-> InputSeriesOf(dpl - 1),
                err |-> ApplyNewDataSeriesErr(InputSeriesOf(dpl - 1))]
    /\ dataPoints' = ApplyNewDataSeriesData(dataPoints, "many", InputSeriesOf(dpl - 1))
    /\ pending' = IF ApplyNewDataSeriesErr(InputSeriesOf(dpl - 1)) = "nil"
                  THEN "ApplyNewDataSeries" ELSE "none"
    /\ UNCHANGED <<toggleVars, labels, mouseVars, r, panicked>>

\* chart.ApplySingleDataPoint("steady", ...) up to its map write
FeederApplySingleDataPoint(newDataPoint) ==
    /\ ~panicked
    /\ pending = "none"
    /\ "many" \in DOMAIN dataPoints
    /\ call' = [op |-> "ApplySingleDataPoint", name |-> "steady",
                point |-> newDataPoint, before |-> SeriesOf(dataPoints, "steady")]
    /\ dataPoints' = ApplySingleDataPointData(dataPoints, "steady", newDataPoint)
    /\ pending' = "ApplySingleDataPoint"
    /\ UNCHANGED <<toggleVars, labels, mouseVars, r, panicked>>

\* the w.Refresh() that ends the goroutine's call
FeederRefresh ==
    /\ ~panicked
    /\ pending # "none"
    /\ r' = Refresh(r, dataPoints, labels, mouseDisplayStr, mouseDisplayFrameColor)
    /\ pending' = "none"
    /\ UNCHANGED <<widgetVars, panicked, call>>

InitDemo ==
    NewSknLineChart([first |-> InputSeriesOf(dpl + 1), second |-> InputSeriesOf(1)])

NextDemo ==
    \/ FeederApplyNewDataSeries
    \/ FeederApplySingleDataPoint(NewSknDatapoint(2, "yellow"))
    \/ FeederRefresh
    \/ \E s \in Sizes : Layout(s)
    \/ Objects
    \/ MouseMoved(<<10, 119>>)

SpecDemo == InitDemo /\ [][NextDemo]_vars

(***************************************************************************)
(* Claims about the data-mutation entry points, checked under Spec.        *)
(***************************************************************************)
Oversized(m) == \E k \in DOMAIN m : Len(m[k]) > DataPointXLimit

\* C1: after NewSknLineChart and any sequence of the three data calls,
\* accepted or rejected, every series of the chart holds at most
\* DataPointXLimit points.
C1_SeriesBounded ==
    \A k \in DOMAIN dataPoints : Len(dataPoints[k]) <= DataPointXLimit

\* a point was applied to a full series, and the series is still full
C1_Witness ==
    /\ call.op = "ApplySingleDataPoint"
    /\ Len(call.before) = DataPointXLimit
    /\ Len(dataPoints[call.name]) = DataPointXLimit

\* C2: ApplySingleDataPoint(name, p) on a full series leaves its length at
\* the limit, removes exactly the oldest point, keeps the others in order and
\* puts p last; on a series under the limit it appends p and removes nothing.
C2_RollingWindow ==
    call.op = "ApplySingleDataPoint" =>
        LET before == call.before
            after == dataPoints[call.name]
        IN IF Len(before) = DataPointXLimit
           THEN /\ Len(after) = DataPointXLimit
                /\ \A i \in 1..(DataPointXLimit - 1) : after[i] = before[i + 1]
                /\ after[DataPointXLimit] = call.point
           ELSE Len(before) < DataPointXLimit => after = Append(before, call.point)

\* a point was applied to a full series whose oldest point differs from the
\* one after it, so the eviction is visible
C2_Witness ==
    /\ call.op = "ApplySingleDataPoint"
    /\ Len(call.before) = DataPointXLimit
    /\ call.before[1] # call.before[2]
    /\ call.point # call.before[1]

\* C3 (as claimed): ApplyNewDataSeries(name, s) returns an error exactly when
\* s has more than DataPointXLimit points; for every other s it returns nil
\* and the chart's series under name becomes s.
C3_ErrorIffOverLimit ==
    call.op = "ApplyNewDataSeries" =>
        /\ (call.err # "nil") <=> (Len(call.series) > DataPointXLimit)
        /\ Len(call.series) <= DataPointXLimit =>
               /\ call.name \in DOMAIN dataPoints
               /\ dataPoints[call.name] = call.series

C5_ConstructorTruncates ==
    call.op = "NewSknLineChart" =>
        /\ ~panicked
        /\ DOMAIN dataPoints = DOMAIN call.newData
        /\ \A k \in DOMAIN call.newData :
               LET in == call.newData[k] IN
               IF Len(in) > DataPointXLimit
               THEN dataPoints[k] =
                        SubSeq(in, Len(in) - DataPointXLimit + 1, Len(in))
               ELSE dataPoints[k] = in
        /\ (call.err # "nil") <=> Oversized(call.newData)

\* a chart built from one series two points over the limit and one under it
C5_Witness ==
    /\ call.op = "NewSknLineChart"
    /\ call.err # "nil"
    /\ \E k \in DOMAIN call.newData : Len(call.newData[k]) = DataPointXLimit + 2
    /\ \E k \in DOMAIN call.newData : Len(call.newData[k]) = 1

\* C6 (as claimed): an error of NewSknLineChart, ReplaceAllDataSeries or
\* ApplyNewDataSeries is returned only when a series passed to that call
\* exceeds the point-count limit.
C6_ErrorsOnlyOverLimit ==
    /\ (call.op \in {"NewSknLineChart", "ReplaceAllDataSeries"} /\ call.err # "nil")
           => Oversized(call.newData)
    /\ (call.op = "ApplyNewDataSeries" /\ call.err # "nil")
           => Len(call.series) > DataPointXLimit

\* C7: whenever ApplyNewDataSeries or ReplaceAllDataSeries returns an error,
\* the chart's series data, labels and toggles are what they were before.
C7_RejectedCallChangesNothing ==
    [][(call'.op \in {"ApplyNewDataSeries", "ReplaceAllDataSeries"}
            /\ call'.err # "nil")
          => UNCHANGED <<dataPoints, labels, toggleVars>>]_vars

\* a series call was rejected for a series the chart does not hold
C7_Witness ==
    /\ call.op = "ApplyNewDataSeries"
    /\ call.err # "nil"
    /\ Len(call.series) > DataPointXLimit
    /\ SeriesOf(dataPoints, call.name) # call.series
    /\ Size(dataPoints) > 0

(***************************************************************************)
(* Claims about the mouse handlers.                                        *)
(***************************************************************************)
\* C8: MouseDown with the secondary button negates EnableDataPointMarkers and
\* changes no other widget field; with the primary button it negates
\* EnableMousePointDisplay and changes no other widget field; MouseDown with
\* any other button, MouseUp and MouseIn change no widget field. Checked
\* under SpecButtons.
C8_MouseButtons ==
    [][/\ (call'.op = "MouseDown" /\ call'.button = "secondary") =>
             /\ EnableDataPointMarkers' = ~EnableDataPointMarkers
             /\ UNCHANGED <<dataPoints, EnableHorizGridLines, EnableVertGridLines,
                            EnableMousePointDisplay, labels, mouseVars>>
       /\ (call'.op = "MouseDown" /\ call'.button = "primary") =>
             /\ EnableMousePointDisplay' = ~EnableMousePointDisplay
             /\ UNCHANGED <<dataPoints, EnableHorizGridLines, EnableVertGridLines,
                            EnableDataPointMarkers, labels, mouseVars>>
       /\ (call'.op = "MouseDown" /\ call'.button \notin {"primary", "secondary"}) =>
             UNCHANGED widgetVars
       /\ call'.op \in {"MouseUp", "MouseIn"} => UNCHANGED widgetVars
      ]_vars

\* a secondary click switched the markers off on a chart with a label set, a
\* marker laid out and a tooltip text recorded
C8_Witness ==
    /\ call.op = "MouseDown"
    /\ call.button = "secondary"
    /\ ~EnableDataPointMarkers
    /\ labels.TopRightLabel # ""
    /\ mouseDisplayStr # EmptyStr

\* the tooltip is on screen: Objects() has handed the container to the
\* canvas and its last call showed it
TooltipVisible == r.objs.mouseDisplayContainer /\ r.visible.mouseDisplayContainer

BoxContains(top, bottom, pos) ==
    /\ pos[1] >= top[1] /\ pos[1] <= bottom[1]
    /\ pos[2] >= top[2] /\ pos[2] <= bottom[2]

\* the tooltip text names series k and index i (from 1 here, from 0 in the text)
TextNames(text, k, i) == Len(text) = 3 /\ text[1] = k /\ text[2] = i - 1

\* C9 (as claimed): whenever the tooltip is visible after a MouseMoved event
\* at cursor position p, its text names a series and index of a data point of
\* the chart whose marker box contains p. Checked under SpecUI.
C9_TooltipUnderCursor ==
    (call.op = "MouseMoved" /\ TooltipVisible) =>
        \E k \in DOMAIN dataPoints : \E i \in 1..Len(dataPoints[k]) :
            /\ TextNames(r.legendText, k, i)
            /\ BoxContains(dataPoints[k][i].top, dataPoints[k][i].bottom, call.pos)

\* C10: after MouseOut the tooltip text is empty, and from then on the text
\* stays empty and every Objects() call hides the tooltip container, until a
\* MouseMoved event lands inside some data point's marker box. Checked under
\* SpecUI.
C10_MouseOutHidesTooltip ==
    [][/\ call'.op = "MouseOut" =>
             mouseDisplayStr' = EmptyStr /\ r'.legendText = EmptyStr
       /\ (mouseDisplayStr = EmptyStr /\ r.legendText = EmptyStr) =>
             \/ /\ call'.op = "MouseMoved"
                /\ \E k \in DOMAIN dataPoints : \E i \in 1..Len(dataPoints[k]) :
                      BoxContains(dataPoints[k][i].top, dataPoints[k][i].bottom,
                                  call'.pos)
             \/ /\ mouseDisplayStr' = EmptyStr
                /\ r'.legendText = EmptyStr
                /\ call'.op = "Objects" => ~r'.visible.mouseDisplayContainer
      ]_vars

\* a tooltip was shown for a hit, MouseOut blanked it, and the Objects() call
\* after it hid the container while the display was still enabled
C10_Witness ==
    /\ call.op = "Objects"
    /\ EnableMousePointDisplay
    /\ mouseDisplayFrameColor = "yellow"
    /\ r.legendText = EmptyStr
    /\ r.objs.mouseDisplayContainer
    /\ ~r.visible.mouseDisplayContainer

\* C11: while EnableMousePointDisplay is false, a MouseMoved event at any
\* position changes no widget field (tooltip text, position and frame colour
\* stay as they were) and every Objects() call hides the tooltip container.
\* Checked under SpecUI.
C11_DisabledDisplayIsInert ==
    [][/\ (~EnableMousePointDisplay /\ call'.op = "MouseMoved") =>
             UNCHANGED widgetVars
       /\ (~EnableMousePointDisplay /\ call'.op = "Objects") =>
             ~r'.visible.mouseDisplayContainer
      ]_vars

\* with the display switched off and a tooltip text still recorded, the
\* cursor moved into the marker box of a point, and the container handed to
\* the canvas is hidden
C11_Witness ==
    /\ call.op = "MouseMoved"
    /\ ~EnableMousePointDisplay
    /\ mouseDisplayStr # EmptyStr
    /\ \E k \in DOMAIN dataPoints : \E i \in 1..Len(dataPoints[k]) :
          /\ BoxContains(dataPoints[k][i].top, dataPoints[k][i].bottom, call.pos)
          /\ ~IsZero(dataPoints[k][i].top)
    /\ r.objs.mouseDisplayContainer
    /\ ~r.visible.mouseDisplayContainer

(***************************************************************************)
(* Claims about the labels.                                                *)
(***************************************************************************)
\* the canvas object Objects() shows or hides for each label field
LabelObject(field) ==
    CASE field = "TopRightLabel" -> "topRightDesc"
      [] field = "LeftMiddleLabel" -> "leftMiddleBox"
      [] field = "RightMiddleLabel" -> "rightMiddleBox"
      [] field = "BottomLeftLabel" -> "bottomLeftDesc"
      [] field = "BottomCenteredLabel" -> "bottomCenteredDesc"
      [] field = "BottomRightLabel" -> "bottomRightDesc"

OptionalLabels == {"TopRightLabel", "LeftMiddleLabel", "RightMiddleLabel",
                   "BottomLeftLabel", "BottomCenteredLabel", "BottomRightLabel"}

\* C12 (as claimed): for each of the labels top-right, middle-left,
\* middle-right, bottom-left, bottom-centered and bottom-right, an Objects()
\* call that follows the label's setter hides the label's canvas object when
\* the setter was given the empty string and shows it otherwise. Checked
\* under SpecLabels.
C12_SetterDecidesDisplay ==
    [][(call.op = "SetLabel" /\ call.field \in OptionalLabels
            /\ call'.op = "Objects")
          => (r'.visible[LabelObject(call.field)] <=> call.value # "")]_vars

(***************************************************************************)
(* Claims about the plot.                                                  *)
(***************************************************************************)
\* the point limit the program runs with (dpl := 120)
ProgramPointLimit == 120

\* p lies in the rectangle of the chart frame, which Layout moves to
\* (xInc, yInc) and resizes to (12 * xInc, 11 * yInc)
InFrame(p) ==
    /\ r.xInc <= p[1] /\ p[1] <= 13 * r.xInc
    /\ r.yInc <= p[2] /\ p[2] <= 12 * r.yInc

\* the centre of the marker box Layout gave the point
MarkerCentre(point) == <<point.top[1] + 2, point.top[2] + 2>>

C15_SegmentsJoinNeighbours ==
    (call.op = "Layout" /\ ~panicked) =>
        \A k \in DOMAIN dataPoints : \A i \in 1..Len(dataPoints[k]) :
            /\ r.dataPoints[k][i].p1 = MarkerCentre(dataPoints[k][i])
            /\ r.dataPoints[k][i].p2 =
                  MarkerCentre(dataPoints[k][IF i = 1 THEN 1 ELSE i - 1])

\* a Layout of two series of two or more points whose first points are
\* plotted at different heights, with a segment between two different
\* positions in each
C15_Witness ==
    /\ call.op = "Layout"
    /\ ~panicked
    /\ Len(dataPoints["first"]) >= 2
    /\ Len(dataPoints["second"]) >= 2
    /\ r.dataPoints["first"][1].p1 # r.dataPoints["second"][1].p1
    /\ r.dataPoints["first"][2].p2[2] # r.dataPoints["first"][2].p1[2]
    /\ r.dataPoints["second"][2].p2[2] # r.dataPoints["second"][2].p1[2]
    /\ r.dataPoints["first"][1].p2 = r.dataPoints["first"][1].p1

(***************************************************************************)
(* Claims about the demo program.                                          *)
(***************************************************************************)
\* C13 (as claimed): in the demo program all widget mutation and rendering
\* is serialised: Layout never runs between a data mutation of the feeder
\* goroutine and the renderer Refresh that follows it, and never visits a
\* series point for which the renderer has no line or marker object (which
\* is an index out of range). Checked under SpecDemo.
C13_MutationAndRenderingSerialised ==
    /\ call.op = "Layout" => pending = "none"
    /\ ~panicked

====
